---- MODULE Spec2Model ----
(***************************************************************************)
(* A state-machine model of the OCR overlay pipeline of                    *)
(* pdfix/ocr-tesseract-docker: src/src/tesseract.py (render_pages, ocr)    *)
(* and main() of src/src/main.py that calls it.                            *)
(*                                                                         *)
(* The PDF engine and the OCR engine are external: each of their calls is  *)
(* a step whose result (success or failure, the returned page box, the     *)
(* returned content stream) is chosen nondeterministically.                *)
(*                                                                         *)
(* Numbers: the code divides Python floats.  The model computes the same   *)
(* quotients exactly, as reduced fractions <<n, d>> with d > 0, and the    *)
(* sine and cosine of q * pi / 2 as the exact values 0, 1, -1.             *)
(***************************************************************************)
EXTENDS Integers, Sequences, FiniteSets, TLC

VARIABLES
    pc,             \* position in main()/ocr()/render_pages()
    i,              \* loop variable of ocr(): index of the page in work
    src_pages,      \* the input document as opened (never changes)
    doc_content,    \* content stream of every page of doc (mutated in place)
    acquired,       \* doc.AcquirePage(i) calls so far, in order
    tmp_file,       \* the NamedTemporaryFile of render_pages exists
    jpg_files,      \* pages whose rendered image file tmp.name + ".jpg" exists
    temp_pdf,       \* bytes returned by render_pages: the OCR page document
    temp_files,     \* pages whose temp_path file exists on disk
    temp_doc,       \* "none" | "open" | "closed"
    temp_page,      \* "none" | "acquired" | "released"
    temp_page_box,  \* crop box read from temp_page
    objs,           \* temp_page_content: the objects of the temporary page
    order,          \* the indices reversed(range(GetNumObjects())) yields
    k,              \* position of the filter loop in order
    visited,        \* ids of the objects GetObject returned, in visit order
    xobj,           \* content of the XObject created from temp_page
    crop_box,
    rotate,
    width,
    height,
    width_tmp,
    height_tmp,
    scale_x,
    scale_y,
    matrix,
    saved,          \* number of successful doc.Save calls
    failed,         \* the engine calls that reported a failure, as <<step, page>>
    err,            \* the exception message ocr() raised, "" if none
    exit_code,      \* process exit code, -1 while running
    args,           \* main(): how parse_args ends, the parsed arguments, and
                    \* isfile, the value of os.path.isfile(args.input)
    doc_lang,       \* doc.GetLang() of the input document
    lang,           \* the parameter lang of ocr()
    ocr_langs,      \* the lang of every pytesseract call so far, in order
    temp_path       \* name of the file the OCR page document is written to

vars == <<pc, i, src_pages, doc_content, acquired, tmp_file, jpg_files,
          temp_pdf, temp_files, temp_doc, temp_page, temp_page_box, objs,
          order, k, visited, xobj, crop_box, rotate, width, height,
          width_tmp, height_tmp, scale_x, scale_y, matrix, saved, failed,
          err, exit_code, args, doc_lang, lang, ocr_langs, temp_path>>

\* the locals of one loop iteration of ocr()
iter_locals == <<temp_pdf, temp_doc, temp_page, temp_page_box, objs, order, k,
                 visited, xobj, crop_box, rotate, width, height, width_tmp,
                 height_tmp, scale_x, scale_y, matrix>>

\* the locals of the geometry part of an iteration
geom_locals == <<crop_box, rotate, width, height, width_tmp, height_tmp,
                 scale_x, scale_y, matrix>>

\* the locals of the temporary-document part of an iteration
temp_locals == <<temp_pdf, temp_doc, temp_page, temp_page_box, objs, order, k,
                 visited, xobj>>

\* what the run is given: never assigned after the start
inputs == <<src_pages, args, doc_lang>>

\* the inputs, the language and the name of the temporary file
ocr_env == <<inputs, lang, ocr_langs, temp_path>>

\* files and documents outside the iteration's locals
world == <<ocr_env, doc_content, acquired, tmp_file, jpg_files, temp_files,
           saved, exit_code>>

(***************************************************************************)
(* Bounds                                                                  *)
(***************************************************************************)
MaxPages == 3
MaxObjs == 3

(***************************************************************************)
(* Exact arithmetic for Python's float division                            *)
(***************************************************************************)
Abs(n) == IF n < 0 THEN -n ELSE n

RECURSIVE GCD(_, _)
GCD(a, b) == IF b = 0 THEN a ELSE GCD(b, a % b)

\* the fraction n / d in lowest terms with a positive denominator (d # 0)
Frac(n, d) ==
    LET g == GCD(Abs(n), Abs(d))
        s == IF d < 0 THEN -1 ELSE 1
    IN  <<(s * n) \div g, (s * d) \div g>>

RInt(n) == <<n, 1>>
RAdd(p, q) == Frac(p[1] * q[2] + q[1] * p[2], p[2] * q[2])
RMul(p, q) == Frac(p[1] * q[1], p[2] * q[2])
RLe(p, q) == p[1] * q[2] <= q[1] * p[2]

(***************************************************************************)
(* utils.pdf_matrix_* : affine matrices with the row-vector convention     *)
(*   (x, y) -> (a*x + c*y + e, b*x + d*y + f)                              *)
(* Each call with prepend = False multiplies the running matrix on the     *)
(* right by the new one.                                                   *)
(***************************************************************************)
PdfMatrix ==
    [a |-> RInt(1), b |-> RInt(0), c |-> RInt(0), d |-> RInt(1),
     e |-> RInt(0), f |-> RInt(0)]

pdf_matrix_concat(m, m1) ==
    [a |-> RAdd(RMul(m.a, m1.a), RMul(m.b, m1.c)),
     b |-> RAdd(RMul(m.a, m1.b), RMul(m.b, m1.d)),
     c |-> RAdd(RMul(m.c, m1.a), RMul(m.d, m1.c)),
     d |-> RAdd(RMul(m.c, m1.b), RMul(m.d, m1.d)),
     e |-> RAdd(RAdd(RMul(m.e, m1.a), RMul(m.f, m1.c)), m1.e),
     f |-> RAdd(RAdd(RMul(m.e, m1.b), RMul(m.f, m1.d)), m1.f)]

\* cos and sin of q * pi / 2 for a whole quadrant q
Cos4(q) == CASE q % 4 = 0 -> 1 [] q % 4 = 2 -> -1 [] OTHER -> 0
Sin4(q) == CASE q % 4 = 1 -> 1 [] q % 4 = 3 -> -1 [] OTHER -> 0

\* pdf_matrix_rotate(m, q * pi / 2, False)
pdf_matrix_rotate(m, q) ==
    pdf_matrix_concat(m,
        [a |-> RInt(Cos4(q)), b |-> RInt(Sin4(q)), c |-> RInt(-Sin4(q)),
         d |-> RInt(Cos4(q)), e |-> RInt(0), f |-> RInt(0)])

\* pdf_matrix_scale(m, sx, sy, False)
pdf_matrix_scale(m, sx, sy) ==
    pdf_matrix_concat(m,
        [a |-> sx, b |-> RInt(0), c |-> RInt(0), d |-> sy,
         e |-> RInt(0), f |-> RInt(0)])

\* pdf_matrix_translate(m, x, y, False)
pdf_matrix_translate(m, x, y) ==
    pdf_matrix_concat(m,
        [a |-> RInt(1), b |-> RInt(0), c |-> RInt(0), d |-> RInt(1),
         e |-> RInt(x), f |-> RInt(y)])

\* the image of the point (x, y) under m
Apply(m, x, y) ==
    <<RAdd(RAdd(RMul(m.a, RInt(x)), RMul(m.c, RInt(y))), m.e),
      RAdd(RAdd(RMul(m.b, RInt(x)), RMul(m.d, RInt(y))), m.f)>>

(***************************************************************************)
(* The geometry of ocr(), lines 187-233                                    *)
(***************************************************************************)
Box(l, b, r, t) == [left |-> l, bottom |-> b, right |-> r, top |-> t]

BoxWidth(box) == box.right - box.left
BoxHeight(box) == box.top - box.bottom

\* a swap for 90 degrees only
SwapsTmpAt90(rot) == rot = 90

\* no swap for any rotation
NeverSwapsTmp(rot) == FALSE

\* line 195: the test that swaps width_tmp and height_tmp
SwapsTmp(rot) == rot = 90 \/ rot = 270

\* lines 191-196: width_tmp after the optional swap
EffWidthTmp(rot, tbox) ==
    IF SwapsTmp(rot) THEN BoxHeight(tbox) ELSE BoxWidth(tbox)

\* a swap that loses height_tmp: width_tmp = height_tmp; height_tmp = width_tmp
EffHeightTmpLost(rot, tbox) == BoxHeight(tbox)

\* lines 193-196: height_tmp after the optional swap
EffHeightTmp(rot, tbox) ==
    IF SwapsTmp(rot) THEN BoxWidth(tbox) ELSE BoxHeight(tbox)

\* the ratio of line 198 upside down
ScaleXInverted(w, wtmp) == Frac(wtmp, w)

\* line 198: scale_x = width / width_tmp
ScaleX(w, wtmp) == Frac(w, wtmp)

\* line 199: scale_y = height / height_tmp
ScaleY(h, htmp) == Frac(h, htmp)

\* line 202: rotate = (page.GetRotate() / 90) % 4
Quadrant(rot) == (rot \div 90) % 4

\* the anchor without the choice by quadrant: always (left, bottom)
AnchorLeftBottom(q, box) == <<box.left, box.bottom>>

\* lines 206-233: the corner of crop_box the content is translated to
Anchor(q, box) ==
    CASE q = 0 -> <<box.left, box.bottom>>
      [] q = 1 -> <<box.right, box.bottom>>
      [] q = 2 -> <<box.right, box.top>>
      [] q = 3 -> <<box.left, box.top>>

\* lines 203-233: rotate, then scale, then translate
PlacementMatrix(q, sx, sy, box) ==
    LET m1 == pdf_matrix_rotate(PdfMatrix, q)
        m2 == pdf_matrix_scale(m1, sx, sy)
    IN  IF q \in 0..3
        THEN pdf_matrix_translate(m2, Anchor(q, box)[1], Anchor(q, box)[2])
        ELSE m2

(***************************************************************************)
(* Content streams                                                         *)
(***************************************************************************)
kPdsPageText == "Text"
ObjTypes == {"Text", "Image", "Path"}

Obj(type, id) == [type |-> type, id |-> id, matrix |-> PdfMatrix]

\* the content stream whose objects carry the type tags of tags, in order
Stream(tags) == [n \in 1..Len(tags) |-> Obj(tags[n], n)]

\* the Form object content.AddNewForm creates for xobj with matrix m
Form(m) == [type |-> "Form", id |-> 0, matrix |-> m]

\* content.RemoveObject: the stream without the object at 0-based index j
RemoveObject(content, j) ==
    [n \in 1..(Len(content) - 1) |->
        IF n <= j THEN content[n] ELSE content[n + 1]]

\* range(n) without reversed: 0, ..., n-1
ForwardOrder(n) == [m \in 1..n |-> m - 1]

\* line 168: reversed(range(n)) as the sequence n-1, ..., 0
FilterOrder(n) == [m \in 1..n |-> n - m]

\* content.AddNewForm(index, ...): index -1 appends, otherwise the object
\* is inserted in front of the object at that index
InsertAt(content, index, obj) ==
    IF index < 0 \/ index >= Len(content)
    THEN Append(content, obj)
    ELSE SubSeq(content, 1, index) \o <<obj>>
         \o SubSeq(content, index + 1, Len(content))

\* line 236: the index handed to AddNewForm
FormIndex == -1

\* AddNewForm with index 0: the form is put in front of the page's content
AddFormFirst(content, m) == InsertAt(content, 0, Form(m))

\* lines 235-236: page.GetContent().AddNewForm(-1, xobj, matrix)
AddForm(content, m) == InsertAt(content, FormIndex, Form(m))

(***************************************************************************)
(* Inputs: the documents and the engine results the runs are checked on    *)
(***************************************************************************)
Rotations == {0, 90, 180, 270}

\* a page of the input document: its content stream, CropBox and rotation,
\* and ocr_box, the page box of the document the OCR engine makes of its image
Page(tags, box, rot, obox) ==
    [content |-> Stream(tags), box |-> box, rotate |-> rot, ocr_box |-> obox]

\* the pages a document of a full run is made of
RunPages ==
    { Page(<<>>, Box(0, 0, 612, 792), 0, Box(0, 0, 1224, 1584)),
      Page(<<"Image", "Text">>, Box(0, 0, 792, 612), 90, Box(0, 0, 1224, 1584)),
      Page(<<"Path">>, Box(1, 1, 3, 4), 180, Box(0, 0, 4, 12)) }

\* the content streams of the OCR output: every mix of up to MaxObjs objects
OcrContents ==
    UNION { { Stream(t) : t \in [1..n -> ObjTypes] } : n \in 0..MaxObjs }

\* the documents of a full run
RunDocs == UNION { [1..n -> RunPages] : n \in 0..MaxPages }

\* destination crop boxes of the geometry runs (left <= right and
\* bottom <= top); the last one has width zero
GeomBoxes ==
    { Box(0, 0, 612, 792), Box(0, 0, 792, 612), Box(1, 1, 3, 4),
      Box(-2, 3, 5, 5), Box(10, 20, 11, 21), Box(4, 0, 4, 5) }

\* OCR page boxes of the geometry runs: the OCR engine's boxes start at the
\* origin; the last two are a box that does not and a box of width zero
GeomOcrBoxes ==
    { Box(0, 0, 1224, 1584), Box(0, 0, 4, 12), Box(0, 0, 3, 3),
      Box(2, 2, 6, 14), Box(0, 0, 0, 5) }

\* the names uuid4 may give the temporary file (lines 151-153)
TempNames == {"a.pdf", "b.pdf"}

\* what translate_iso_to_tesseract returns for a language it does not know
None == "None"

\* utils.translate_iso_to_tesseract: the table from the document's language
\* tag to the language code of the OCR engine
translate_iso_to_tesseract(tag) ==
    CASE tag = "en-US" -> "eng"
      [] tag = "de" -> "deu"
      [] OTHER -> None

\* lines 130-134 without the default
ResolveLangNoDefault(lang_arg, tag) ==
    IF lang_arg = "" THEN translate_iso_to_tesseract(tag) ELSE lang_arg

\* lines 130-134: the lang of the caller unless it is empty, else the code
\* of the document's language, else "eng"
ResolveLang(lang_arg, tag) ==
    IF lang_arg = ""
    THEN LET pdf_lang == translate_iso_to_tesseract(tag)
         IN  IF pdf_lang = None THEN "eng" ELSE pdf_lang
    ELSE lang_arg

\* the result of parse_args and os.path.isfile in main()
Args(parse, subparser, input, output, lang_arg, isfile) ==
    [parse |-> parse, subparser |-> subparser, input |-> input,
     output |-> output, lang |-> lang_arg, isfile |-> isfile]

\* a file name, as its stem and its extension; NoName is an option that
\* was not given (None) or given empty
Name(stem, ext) == [stem |-> stem, ext |-> ext]
NoName == Name("", "")

\* str.lower on the extensions of the names in use
Lower(ext) == IF ext = ".PDF" THEN ".pdf" ELSE ext

\* main.py line 89: name.lower().endswith(".pdf")
EndsWithPdf(name) == Lower(name.ext) = ".pdf"

\* the arguments of a run of ocr() on an existing PDF, without --lang
OcrArgs == Args("ok", "ocr", Name("in", ".pdf"), Name("out", ".pdf"), "", TRUE)

\* the command lines of main(): --help, a line argparse rejects, no
\* subcommand, config, and ocr with every mix of names, --lang and isfile
CliArgs ==
    { Args("help", "none", NoName, NoName, "", FALSE),
      Args("error", "none", NoName, NoName, "", FALSE),
      Args("ok", "none", NoName, NoName, "", FALSE),
      Args("ok", "config", NoName, NoName, "", FALSE),
      Args("ok", "config", NoName, Name("config", ".json"), "", FALSE) }
    \cup
    { Args("ok", "ocr", input, output, lang_arg, isfile) :
        input \in {NoName, Name("in", ".pdf"), Name("IN", ".PDF"),
                   Name("in", ".txt")},
        output \in {NoName, Name("out", ".pdf"), Name("out", ".txt")},
        lang_arg \in {"", "deu"},
        isfile \in BOOLEAN }

\* what doc.GetLang() returns: nothing, two tags of the table, an unknown tag
DocLangs == {"", "en-US", "de", "xx"}

NoBox == Box(0, 0, 0, 0)
NoPdf == [box |-> NoBox, objs |-> <<>>]

\* the locals of an iteration before the iteration assigns them
FreshLocals ==
    /\ temp_pdf = NoPdf
    /\ temp_doc = "none"
    /\ temp_page = "none"
    /\ temp_page_box = NoBox
    /\ objs = <<>>
    /\ order = <<>>
    /\ k = 1
    /\ visited = <<>>
    /\ xobj = <<>>
    /\ crop_box = NoBox
    /\ rotate = 0
    /\ width = 0
    /\ height = 0
    /\ width_tmp = 0
    /\ height_tmp = 0
    /\ scale_x = RInt(0)
    /\ scale_y = RInt(0)
    /\ matrix = PdfMatrix

\* the same, as the assignment that starts an iteration
ResetLocals ==
    /\ temp_pdf' = NoPdf
    /\ temp_doc' = "none"
    /\ temp_page' = "none"
    /\ temp_page_box' = NoBox
    /\ objs' = <<>>
    /\ order' = <<>>
    /\ k' = 1
    /\ visited' = <<>>
    /\ xobj' = <<>>
    /\ crop_box' = NoBox
    /\ rotate' = 0
    /\ width' = 0
    /\ height' = 0
    /\ width_tmp' = 0
    /\ height_tmp' = 0
    /\ scale_x' = RInt(0)
    /\ scale_y' = RInt(0)
    /\ matrix' = PdfMatrix

Init ==
    /\ pc = "start"
    /\ i = 0
    /\ src_pages \in RunDocs
    /\ doc_content = [p \in 1..Len(src_pages) |-> src_pages[p].content]
    /\ acquired = <<>>
    /\ tmp_file = FALSE
    /\ jpg_files = {}
    /\ temp_files = {}
    /\ saved = 0
    /\ failed = {}
    /\ err = ""
    /\ exit_code = -1
    /\ args = OcrArgs
    /\ doc_lang = "en-US"
    /\ lang = args.lang
    /\ ocr_langs = <<>>
    /\ temp_path = ""
    /\ FreshLocals

\* the page index a message of ocr() names, -1 if none: every message of
\* lines 53-80 and 144-238 is a constant text, at most followed by the
\* engine's last error, and none is built from i
PageNamedBy(msg) == -1

\* the destination pages released so far: ocr() acquires them at line 142
\* and holds no page.Release() for them
ReleasedPages == {}

\* raise: leave ocr() with an exception
Raise(step, msg) ==
    /\ pc' = "error"
    /\ err' = msg
    /\ failed' = failed \cup {<<step, i>>}

\* lines 113-138: GetPdfix, Authorize, OpenDoc, GetNumPages
OpenDoc ==
    /\ pc = "start"
    /\ \/ /\ pc' = "loop"
          /\ lang' = ResolveLang(lang, doc_lang)
          /\ UNCHANGED <<err, failed>>
       \/ /\ \E msg \in {"Pdfix Initialization fail",
                          "Pdfix Authorization fail", "Unable to open pdf"} :
                Raise("open", msg)
          /\ UNCHANGED lang
    /\ UNCHANGED <<i, inputs, ocr_langs, temp_path, doc_content, acquired,
                   tmp_file, jpg_files, temp_files, saved, exit_code,
                   iter_locals>>

\* lines 141-144: the next iteration starts; its locals are not yet assigned
AcquirePage ==
    /\ pc = "loop"
    /\ i < Len(doc_content)
    /\ \/ /\ pc' = "page_view"
          /\ acquired' = Append(acquired, i)
          /\ ResetLocals
          /\ UNCHANGED <<err, failed>>
       \/ /\ Raise("acquire_page", "Unable to acquire page")
          /\ UNCHANGED <<acquired, iter_locals>>
    /\ UNCHANGED <<i, ocr_env, doc_content, tmp_file, jpg_files, temp_files,
                   saved, exit_code>>

\* lines 50-53
AcquirePageView ==
    /\ pc = "page_view"
    /\ \/ /\ pc' = "create_image"
          /\ UNCHANGED <<err, failed>>
       \/ Raise("page_view", "Unable to acquire page view")
    /\ UNCHANGED <<i, world, iter_locals>>

\* lines 55-60
CreateImage ==
    /\ pc = "create_image"
    /\ \/ /\ pc' = "draw"
          /\ UNCHANGED <<err, failed>>
       \/ Raise("create_image", "Unable to create image")
    /\ UNCHANGED <<i, world, iter_locals>>

\* DrawContent whose failure skips the page instead of raising
DrawContentSkipsPage ==
    /\ pc = "draw"
    /\ \/ /\ pc' = "file_stream"
          /\ UNCHANGED <<i, err, failed>>
       \/ /\ pc' = "loop"
          /\ i' = i + 1
          /\ failed' = failed \cup {<<"draw", i>>}
          /\ UNCHANGED err
    /\ UNCHANGED <<world, iter_locals>>

\* lines 62-67
DrawContent ==
    /\ pc = "draw"
    /\ \/ /\ pc' = "file_stream"
          /\ UNCHANGED <<err, failed>>
       \/ Raise("draw", "Unable to draw content")
    /\ UNCHANGED <<i, world, iter_locals>>

\* lines 70-74: the with block creates tmp; the stream creates tmp.name + ".jpg"
CreateFileStream ==
    /\ pc = "file_stream"
    /\ \/ /\ pc' = "save_image"
          /\ tmp_file' = TRUE
          /\ jpg_files' = jpg_files \cup {i}
          /\ UNCHANGED <<err, failed>>
       \/ /\ Raise("file_stream", "Unable to create file stream")
          /\ UNCHANGED <<tmp_file, jpg_files>>
    /\ UNCHANGED <<i, ocr_env, doc_content, acquired, temp_files, saved,
                   exit_code, iter_locals>>

\* lines 76-80: leaving the with block deletes tmp, and only tmp
SaveToStream ==
    /\ pc = "save_image"
    /\ \/ /\ pc' = "ocr"
          /\ UNCHANGED <<err, failed, tmp_file>>
       \/ /\ Raise("save_image", "Unable to save image to stream")
          /\ tmp_file' = FALSE
    /\ UNCHANGED <<i, ocr_env, doc_content, acquired, jpg_files, temp_files,
                   saved, exit_code, iter_locals>>

\* lines 82-86 and 146-149: pytesseract returns the page document or raises
ImageToPdf ==
    /\ pc = "ocr"
    /\ tmp_file' = FALSE
    /\ ocr_langs' = Append(ocr_langs, lang)
    /\ \/ /\ \E content \in OcrContents :
                temp_pdf' = [box |-> src_pages[i + 1].ocr_box, objs |-> content]
          /\ pc' = "write_temp"
          /\ UNCHANGED <<err, failed>>
       \/ /\ Raise("ocr", "TesseractError")
          /\ UNCHANGED temp_pdf
    /\ UNCHANGED <<i, inputs, lang, temp_path, doc_content, acquired, jpg_files, temp_files,
                   saved, exit_code, temp_doc, temp_page, temp_page_box, objs,
                   order, k, visited, xobj, geom_locals>>

\* lines 151-155
WriteTempPdf ==
    /\ pc = "write_temp"
    /\ pc' = "open_temp"
    /\ temp_path' \in TempNames
    /\ temp_files' = temp_files \cup {i}
    /\ UNCHANGED <<i, inputs, lang, ocr_langs, doc_content, acquired, tmp_file, jpg_files,
                   saved, exit_code, iter_locals, err, failed>>

\* lines 157-160
OpenTempDoc ==
    /\ pc = "open_temp"
    /\ \/ /\ pc' = "acquire_temp"
          /\ temp_doc' = "open"
          /\ UNCHANGED <<err, failed>>
       \/ /\ Raise("open_temp", "Unable to open pdf")
          /\ UNCHANGED temp_doc
    /\ UNCHANGED <<i, world, temp_pdf, temp_page, temp_page_box, objs, order,
                   k, visited, xobj, geom_locals>>

\* AcquireTempPage whose crop box depends on the name of the temporary
\* file: under the second name the box is read with its sides exchanged
AcquireTempPageByName ==
    /\ pc = "acquire_temp"
    /\ \/ /\ pc' = "filter"
          /\ temp_page' = "acquired"
          /\ temp_page_box' =
                IF temp_path = "a.pdf" THEN temp_pdf.box
                ELSE Box(temp_pdf.box.bottom, temp_pdf.box.left,
                         temp_pdf.box.top, temp_pdf.box.right)
          /\ objs' = temp_pdf.objs
          /\ order' = FilterOrder(Len(temp_pdf.objs))
          /\ k' = 1
          /\ UNCHANGED <<err, failed>>
       \/ /\ Raise("acquire_temp_page", "AttributeError: GetCropBox")
          /\ UNCHANGED <<temp_page, temp_page_box, objs, order, k>>
    /\ UNCHANGED <<i, world, temp_pdf, temp_doc, visited, xobj, geom_locals>>

\* lines 163-168: a page that is None fails at temp_page.GetCropBox()
AcquireTempPage ==
    /\ pc = "acquire_temp"
    /\ \/ /\ pc' = "filter"
          /\ temp_page' = "acquired"
          /\ temp_page_box' = temp_pdf.box
          /\ objs' = temp_pdf.objs
          /\ order' = FilterOrder(Len(temp_pdf.objs))
          /\ k' = 1
          /\ UNCHANGED <<err, failed>>
       \/ /\ Raise("acquire_temp_page", "AttributeError: GetCropBox")
          /\ UNCHANGED <<temp_page, temp_page_box, objs, order, k>>
    /\ UNCHANGED <<i, world, temp_pdf, temp_doc, visited, xobj, geom_locals>>

\* lines 168-172: one pass of the filter loop; GetObject of an index past
\* the end returns None and obj.GetObjectType() raises
FilterStep ==
    /\ pc = "filter"
    /\ k <= Len(order)
    /\ LET j == order[k] IN
         IF j >= Len(objs)
         THEN /\ Raise("get_object", "AttributeError: GetObjectType")
              /\ UNCHANGED <<objs, k, visited>>
         ELSE /\ visited' = Append(visited, objs[j + 1].id)
              /\ objs' = IF objs[j + 1].type # kPdsPageText
                         THEN RemoveObject(objs, j)
                         ELSE objs
              /\ k' = k + 1
              /\ UNCHANGED <<pc, err, failed>>
    /\ UNCHANGED <<i, world, temp_pdf, temp_doc, temp_page, temp_page_box,
                   order, xobj, geom_locals>>

\* CreateXObject with line 182 in front of line 176: the page is released
\* before the XObject is made from it
CreateXObjectAfterRelease ==
    /\ pc = "filter"
    /\ k > Len(order)
    /\ temp_page' = "released"
    /\ \/ /\ pc' = "release_page"
          /\ xobj' = objs
          /\ UNCHANGED <<err, failed>>
       \/ /\ Raise("create_xobject", "Failed to create XObject from page")
          /\ UNCHANGED xobj
    /\ UNCHANGED <<i, world, temp_pdf, temp_doc, temp_page_box, objs, order,
                   k, visited, geom_locals>>

\* lines 174-180: the loop is over; SetContent, CreateXObjectFromPage
CreateXObject ==
    /\ pc = "filter"
    /\ k > Len(order)
    /\ \/ /\ pc' = "release_page"
          /\ xobj' = objs
          /\ UNCHANGED <<err, failed>>
       \/ /\ Raise("create_xobject", "Failed to create XObject from page")
          /\ UNCHANGED xobj
    /\ UNCHANGED <<i, world, temp_pdf, temp_doc, temp_page, temp_page_box,
                   objs, order, k, visited, geom_locals>>

\* line 182
ReleaseTempPage ==
    /\ pc = "release_page"
    /\ pc' = "close_temp"
    /\ temp_page' = "released"
    /\ UNCHANGED <<i, world, temp_pdf, temp_doc, temp_page_box, objs, order,
                   k, visited, xobj, geom_locals, err, failed>>

\* line 183
CloseTempDoc ==
    /\ pc = "close_temp"
    /\ pc' = "remove_temp"
    /\ temp_doc' = "closed"
    /\ UNCHANGED <<i, world, temp_pdf, temp_page, temp_page_box, objs, order,
                   k, visited, xobj, geom_locals, err, failed>>

\* line 185
RemoveTempPath ==
    /\ pc = "remove_temp"
    /\ pc' = "geometry"
    /\ temp_files' = temp_files \ {i}
    /\ UNCHANGED <<i, ocr_env, doc_content, acquired, tmp_file, jpg_files,
                   saved, exit_code, iter_locals, err, failed>>

\* lines 187-199: a divisor of zero raises ZeroDivisionError
ComputeScale ==
    /\ pc = "geometry"
    /\ LET pg == src_pages[i + 1]
           wt == EffWidthTmp(pg.rotate, temp_page_box)
           ht == EffHeightTmp(pg.rotate, temp_page_box)
       IN  /\ crop_box' = pg.box
           /\ rotate' = pg.rotate
           /\ width' = BoxWidth(pg.box)
           /\ height' = BoxHeight(pg.box)
           /\ width_tmp' = wt
           /\ height_tmp' = ht
           /\ IF wt = 0 \/ ht = 0
              THEN /\ Raise("scale", "ZeroDivisionError")
                   /\ scale_x' = IF wt = 0 THEN scale_x
                                 ELSE ScaleX(BoxWidth(pg.box), wt)
                   /\ UNCHANGED scale_y
              ELSE /\ pc' = "matrix"
                   /\ scale_x' = ScaleX(BoxWidth(pg.box), wt)
                   /\ scale_y' = ScaleY(BoxHeight(pg.box), ht)
                   /\ UNCHANGED <<err, failed>>
    /\ UNCHANGED <<i, world, temp_locals, matrix>>

\* lines 202-233
BuildMatrix ==
    /\ pc = "matrix"
    /\ pc' = "add_form"
    /\ rotate' = Quadrant(src_pages[i + 1].rotate)
    /\ matrix' = PlacementMatrix(Quadrant(src_pages[i + 1].rotate),
                                 scale_x, scale_y, crop_box)
    /\ UNCHANGED <<i, world, temp_locals, crop_box, width, height, width_tmp,
                   height_tmp, scale_x, scale_y, err, failed>>

\* AddNewForm without the test of line 237: a form that is None is ignored
AddNewFormUnchecked ==
    /\ pc = "add_form"
    /\ pc' = "loop"
    /\ i' = i + 1
    /\ \/ /\ doc_content' =
                [doc_content EXCEPT ![i + 1] = InsertAt(doc_content[i + 1], -1, Form(matrix))]
          /\ UNCHANGED <<err, failed>>
       \/ /\ failed' = failed \cup {<<"add_form", i>>}
          /\ UNCHANGED <<doc_content, err>>
    /\ UNCHANGED <<ocr_env, acquired, tmp_file, jpg_files, temp_files, saved,
                   exit_code, iter_locals>>

\* lines 235-238, then the loop moves on to the next page; the message of
\* line 238 calls Pdfix.GetError() on the class, which raises TypeError
AddNewForm ==
    /\ pc = "add_form"
    /\ \/ /\ pc' = "loop"
          /\ doc_content' =
                [doc_content EXCEPT ![i + 1] = AddForm(doc_content[i + 1], matrix)]
          /\ i' = i + 1
          /\ UNCHANGED <<err, failed>>
       \/ /\ Raise("add_form", "TypeError: GetError")
          /\ UNCHANGED <<doc_content, i>>
    /\ UNCHANGED <<ocr_env, acquired, tmp_file, jpg_files, temp_files, saved,
                   exit_code, iter_locals>>

\* Save inside the loop: the document is saved whatever page is in work
SaveEarly ==
    /\ pc = "loop"
    /\ \/ /\ pc' = "done"
          /\ saved' = saved + 1
          /\ UNCHANGED <<err, failed>>
       \/ /\ Raise("save", "Unable to save pdf")
          /\ UNCHANGED saved
    /\ UNCHANGED <<i, ocr_env, doc_content, acquired, tmp_file, jpg_files,
                   temp_files, exit_code, iter_locals>>

\* lines 240-241: the loop is over
Save ==
    /\ pc = "loop"
    /\ i >= Len(doc_content)
    /\ \/ /\ pc' = "done"
          /\ saved' = saved + 1
          /\ UNCHANGED <<err, failed>>
       \/ /\ Raise("save", "Unable to save pdf")
          /\ UNCHANGED saved
    /\ UNCHANGED <<i, ocr_env, doc_content, acquired, tmp_file, jpg_files,
                   temp_files, exit_code, iter_locals>>

\* main.py line 91: ocr() returned, main() ends and the process exits with 0
MainReturn ==
    /\ pc = "done"
    /\ pc' = "exit"
    /\ exit_code' = 0
    /\ UNCHANGED <<i, ocr_env, doc_content, acquired, tmp_file, jpg_files,
                   temp_files, saved, iter_locals, err, failed>>

\* main.py lines 92-93: sys.exit with a message exits with 1
MainExcept ==
    /\ pc = "error"
    /\ pc' = "exit"
    /\ exit_code' = 1
    /\ UNCHANGED <<i, ocr_env, doc_content, acquired, tmp_file, jpg_files,
                   temp_files, saved, iter_locals, err, failed>>

\* main.py lines 65-71: --help leaves with 0, a rejected command line with 1
ParseArgs ==
    /\ pc = "main"
    /\ \/ /\ args.parse = "ok"
          /\ pc' = "dispatch"
          /\ UNCHANGED exit_code
       \/ /\ args.parse = "help"
          /\ pc' = "exit"
          /\ exit_code' = 0
       \/ /\ args.parse = "error"
          /\ pc' = "exit"
          /\ exit_code' = 1
    /\ UNCHANGED <<i, ocr_env, doc_content, acquired, tmp_file, jpg_files,
                   temp_files, saved, iter_locals, err, failed>>

\* main.py lines 73-75 and 10-21: get_config prints or copies the config
\* file; an OSError of open or copyfile is not caught and ends with 1
GetConfig ==
    /\ pc = "dispatch"
    /\ args.subparser = "config"
    /\ pc' = "exit"
    /\ \/ /\ exit_code' = 0
          /\ UNCHANGED err
       \/ /\ exit_code' = 1
          /\ err' = "OSError"
    /\ UNCHANGED <<i, ocr_env, doc_content, acquired, tmp_file, jpg_files,
                   temp_files, saved, iter_locals, failed>>

\* main.py lines 76-96: parser.error leaves with 2, sys.exit(message) with 1;
\* two PDF names call ocr(); the else branch prints and main() returns
RunOcr ==
    /\ pc = "dispatch"
    /\ args.subparser = "ocr"
    /\ IF args.input = NoName \/ args.output = NoName
       THEN /\ pc' = "exit"
            /\ exit_code' = 2
            /\ UNCHANGED lang
       ELSE IF ~args.isfile
       THEN /\ pc' = "exit"
            /\ exit_code' = 1
            /\ UNCHANGED lang
       ELSE IF EndsWithPdf(args.input) /\ EndsWithPdf(args.output)
       THEN /\ pc' = "start"
            /\ lang' = args.lang
            /\ UNCHANGED exit_code
       ELSE /\ pc' = "exit"
            /\ exit_code' = 0
            /\ UNCHANGED lang
    /\ UNCHANGED <<i, inputs, ocr_langs, temp_path, doc_content, acquired,
                   tmp_file, jpg_files, temp_files, saved, iter_locals, err,
                   failed>>

\* main.py lines 73-96: args.subparser is None, neither branch is taken and
\* main() returns
NoSubcommand ==
    /\ pc = "dispatch"
    /\ args.subparser = "none"
    /\ pc' = "exit"
    /\ exit_code' = 0
    /\ UNCHANGED <<i, ocr_env, doc_content, acquired, tmp_file, jpg_files,
                   temp_files, saved, iter_locals, err, failed>>

Next ==
    \/ OpenDoc
    \/ AcquirePage
    \/ AcquirePageView
    \/ CreateImage
    \/ DrawContent
    \/ CreateFileStream
    \/ SaveToStream
    \/ ImageToPdf
    \/ WriteTempPdf
    \/ OpenTempDoc
    \/ AcquireTempPage
    \/ FilterStep
    \/ CreateXObject
    \/ ReleaseTempPage
    \/ CloseTempDoc
    \/ RemoveTempPath
    \/ ComputeScale
    \/ BuildMatrix
    \/ AddNewForm
    \/ Save
    \/ MainReturn
    \/ MainExcept

Spec == Init /\ [][Next]_vars

(***************************************************************************)
(* The geometry alone: one page whose temporary document has been read and *)
(* released, with the crop boxes, rotations and OCR page boxes of          *)
(* GeomBoxes, Rotations and GeomOcrBoxes.                                  *)
(***************************************************************************)
GeomInit ==
    /\ pc = "geometry"
    /\ i = 0
    /\ \E box \in GeomBoxes, rot \in Rotations, obox \in GeomOcrBoxes :
            src_pages = <<Page(<<"Image">>, box, rot, obox)>>
    /\ doc_content = [p \in 1..Len(src_pages) |-> src_pages[p].content]
    /\ acquired = <<0>>
    /\ tmp_file = FALSE
    /\ jpg_files = {0}
    /\ temp_files = {}
    /\ saved = 0
    /\ failed = {}
    /\ err = ""
    /\ exit_code = -1
    /\ args = OcrArgs
    /\ doc_lang = "en-US"
    /\ lang = ResolveLang(args.lang, doc_lang)
    /\ ocr_langs = <<lang>>
    /\ temp_path = "a.pdf"
    /\ temp_page_box = src_pages[1].ocr_box
    /\ temp_pdf = [box |-> temp_page_box, objs |-> <<>>]
    /\ temp_doc = "closed"
    /\ temp_page = "released"
    /\ objs = <<>>
    /\ order = <<>>
    /\ k = 1
    /\ visited = <<>>
    /\ xobj = <<>>
    /\ crop_box = NoBox
    /\ rotate = 0
    /\ width = 0
    /\ height = 0
    /\ width_tmp = 0
    /\ height_tmp = 0
    /\ scale_x = RInt(0)
    /\ scale_y = RInt(0)
    /\ matrix = PdfMatrix

GeomNext == ComputeScale \/ BuildMatrix \/ AddNewForm

GeomSpec == GeomInit /\ [][GeomNext]_vars

(***************************************************************************)
(* The command line: main() from its start, on every command line of       *)
(* CliArgs, every document language of DocLangs and documents of up to     *)
(* MaxPages - 1 pages.                                                     *)
(***************************************************************************)
CliPage == Page(<<"Path">>, Box(1, 1, 3, 4), 180, Box(0, 0, 4, 12))

CliDocs == UNION { [1..n -> {CliPage}] : n \in 0..(MaxPages - 1) }

CliInit ==
    /\ pc = "main"
    /\ i = 0
    /\ src_pages \in CliDocs
    /\ doc_content = [p \in 1..Len(src_pages) |-> src_pages[p].content]
    /\ acquired = <<>>
    /\ tmp_file = FALSE
    /\ jpg_files = {}
    /\ temp_files = {}
    /\ saved = 0
    /\ failed = {}
    /\ err = ""
    /\ exit_code = -1
    /\ args \in CliArgs
    /\ doc_lang \in DocLangs
    /\ lang = ""
    /\ ocr_langs = <<>>
    /\ temp_path = ""
    /\ FreshLocals

CliNext == ParseArgs \/ GetConfig \/ RunOcr \/ NoSubcommand \/ Next

CliSpec == CliInit /\ [][CliNext]_vars

(***************************************************************************)
(* Properties                                                              *)
(***************************************************************************)
\* page p (1-based) of doc holds a Form object
HasForm(p) == \E n \in 1..Len(doc_content[p]) : doc_content[p][n].type = "Form"

\* the steps of render_pages that produce the image
RenderSteps == {"page_view", "create_image", "draw", "file_stream", "save_image"}

\* the steps of one page's processing whose failure the code tests for
PageSteps ==
    RenderSteps \cup {"acquire_page", "ocr", "open_temp", "create_xobject", "add_form"}

\* C1: once a step of a page's processing has failed, ocr() has ended with an
\* error (the process exits with a code other than 0) and doc.Save has not
\* been and is never called; a document is saved only when no step failed and
\* every page holds its form.
NoSaveAfterFailure ==
    /\ (\E st \in PageSteps, p \in 0..MaxPages : <<st, p>> \in failed) =>
            /\ pc \in {"error", "exit"}
            /\ err # ""
            /\ saved = 0
            /\ pc = "exit" => exit_code = 1
    /\ saved > 0 =>
            /\ failed = {}
            /\ \A p \in 1..Len(doc_content) : HasForm(p)

\* C1 witness: the form append of the last of three pages failed and the
\* process has exited without a save
FailedAtLastPage ==
    /\ pc = "exit"
    /\ Len(src_pages) = 3
    /\ <<"add_form", 2>> \in failed
    /\ HasForm(1) /\ HasForm(2)
    /\ saved = 0

\* C2 as claimed: when ocr() has returned or raised, no image file, no
\* temporary PDF file, no open temporary document and no acquired temporary
\* page is left.
ExitReleasesTransients ==
    pc \in {"done", "error", "exit"} =>
        /\ jpg_files = {}
        /\ temp_files = {}
        /\ temp_doc # "open"
        /\ temp_page # "acquired"

\* C3 as claimed: when the next page's processing begins, and when the
\* process has exited after a successful run, no image file, temporary PDF
\* file, open temporary document or acquired temporary page is left.
NoTransientOutlivesIteration ==
    ((pc = "loop" /\ i >= 1) \/ (pc = "exit" /\ exit_code = 0)) =>
        /\ jpg_files = {}
        /\ temp_files = {}
        /\ temp_doc # "open"
        /\ temp_page # "acquired"

\* C4: the pages are acquired in index order, one at a time, and a form is
\* on exactly the pages before the one in work; when a render step of page p
\* has failed, exactly the pages with index < p hold a form and nothing has
\* been saved.
PagesInOrder ==
    /\ acquired = [n \in 1..Len(acquired) |-> n - 1]
    /\ Len(acquired) \in {i, i + 1}
    /\ \A p \in 1..Len(doc_content) : HasForm(p) <=> p <= i
    /\ \A p \in 0..MaxPages :
         (\E st \in RenderSteps : <<st, p>> \in failed) =>
            /\ i = p
            /\ \A q \in 1..Len(doc_content) : HasForm(q) <=> q <= p
            /\ saved = 0
            /\ pc \in {"error", "exit"}

\* C4 witness: three pages, the render of the second one failed
SecondRenderFailed ==
    /\ Len(src_pages) = 3
    /\ <<"draw", 1>> \in failed
    /\ HasForm(1) /\ ~HasForm(2) /\ ~HasForm(3)
    /\ pc = "exit"
    /\ saved = 0

\* C5: a composited page holds its former objects, unchanged and in their
\* order, followed by exactly one new Form object that carries the matrix
\* computed for the page; a page not yet composited is unchanged; after a
\* successful run every page is composited.
CompositePreserves ==
    /\ \A p \in 1..Len(doc_content) :
         LET old == src_pages[p].content
             new == doc_content[p]
         IN  IF p <= i
             THEN /\ Len(new) = Len(old) + 1
                  /\ SubSeq(new, 1, Len(old)) = old
                  /\ new[Len(new)].type = "Form"
                  /\ (p = i /\ pc = "loop") => new[Len(new)].matrix = matrix
                  /\ new[Len(new)].matrix =
                        PlacementMatrix(Quadrant(src_pages[p].rotate),
                            ScaleX(BoxWidth(src_pages[p].box),
                                   EffWidthTmp(src_pages[p].rotate, src_pages[p].ocr_box)),
                            ScaleY(BoxHeight(src_pages[p].box),
                                   EffHeightTmp(src_pages[p].rotate, src_pages[p].ocr_box)),
                            src_pages[p].box)
             ELSE new = old
    /\ saved > 0 => i = Len(doc_content)

\* C5 witness: a three-page document was saved, one page of which had two
\* objects before
SavedThreePages ==
    /\ saved = 1
    /\ Len(doc_content) = 3
    /\ \E p \in 1..3 : Len(src_pages[p].content) = 2 /\ Len(doc_content[p]) = 3

\* the filter loop of the temporary page is over
FilterOver == temp_page # "none" /\ k > Len(order)

IsText(o) == o.type = kPdsPageText

\* C6: the filter loop never reads an index past the end of the stream;
\* when it is over it has visited every object of the OCR output exactly
\* once and the stream holds exactly the Text objects, in their order.
FilterKeepsText ==
    /\ err # "AttributeError: GetObjectType"
    /\ pc = "filter" => Len(visited) = k - 1
    /\ FilterOver =>
         /\ objs = SelectSeq(temp_pdf.objs, IsText)
         /\ Len(visited) = Len(temp_pdf.objs)
         /\ \A id \in 1..Len(temp_pdf.objs) :
              Cardinality({n \in 1..Len(visited) : visited[n] = id}) = 1

\* C6 witness: a stream Image, Text, Path, ... was filtered down to its texts
FilteredMixed ==
    /\ pc = "release_page"
    /\ Len(temp_pdf.objs) = MaxObjs
    /\ temp_pdf.objs[1].type = "Image"
    /\ temp_pdf.objs[2].type = "Text"
    /\ temp_pdf.objs[3].type = "Path"
    /\ Len(xobj) >= 1
    /\ Len(xobj) < Len(temp_pdf.objs)

\* the four corners of tbox lie in box after m is applied to them
CornersInside(m, tbox, box) ==
    \A x \in {tbox.left, tbox.right}, y \in {tbox.bottom, tbox.top} :
        LET pt == Apply(m, x, y)
        IN  /\ RLe(RInt(box.left), pt[1]) /\ RLe(pt[1], RInt(box.right))
            /\ RLe(RInt(box.bottom), pt[2]) /\ RLe(pt[2], RInt(box.top))

\* the matrix of the page in work has been built from boxes of positive size
MatrixBuiltPositive ==
    /\ pc = "add_form"
    /\ src_pages[i + 1].rotate \in Rotations
    /\ BoxWidth(crop_box) > 0 /\ BoxHeight(crop_box) > 0
    /\ BoxWidth(temp_page_box) > 0 /\ BoxHeight(temp_page_box) > 0

\* C7 as claimed: for every rotation in {0, 90, 180, 270}, every CropBox and
\* every OCR page box of positive width and height, the matrix maps the four
\* corners of the OCR page box into the CropBox.
CornersInsideAnyOcrBox ==
    MatrixBuiltPositive => CornersInside(matrix, temp_page_box, crop_box)

\* C7 amended: the same for every OCR page box of positive width and height
\* whose lower left corner is the origin.
CornersInsideOriginOcrBox ==
    (MatrixBuiltPositive /\ temp_page_box.left = 0 /\ temp_page_box.bottom = 0)
        => CornersInside(matrix, temp_page_box, crop_box)

\* C7 witness: a page rotated by 270 with a CropBox away from the origin and
\* an OCR page box that is not square
RotatedOffsetPlaced ==
    /\ MatrixBuiltPositive
    /\ src_pages[i + 1].rotate = 270
    /\ crop_box = Box(-2, 3, 5, 5)
    /\ temp_page_box = Box(0, 0, 4, 12)
    /\ Apply(matrix, 4, 12) = <<RInt(5), RInt(3)>>

\* scale_x and scale_y of the page in work have been computed
ScaleComputed == pc \in {"matrix", "add_form"}

\* C8: CropBox {0,0,612,792}, rotation 0 and OCR page box {0,0,1224,1584}
\* give scale_x = 1/2, scale_y = 1/2 and the translate anchor (0, 0).
LetterScaleHalf ==
    /\ (/\ ScaleComputed
        /\ crop_box = Box(0, 0, 612, 792)
        /\ src_pages[i + 1].rotate = 0
        /\ temp_page_box = Box(0, 0, 1224, 1584))
         => scale_x = <<1, 2>> /\ scale_y = <<1, 2>>
    /\ (/\ pc = "add_form"
        /\ crop_box = Box(0, 0, 612, 792)
        /\ src_pages[i + 1].rotate = 0
        /\ temp_page_box = Box(0, 0, 1224, 1584))
         => Anchor(rotate, crop_box) = <<0, 0>>

\* C8 witness: the matrix of such a page has been built
LetterPlaced ==
    /\ pc = "add_form"
    /\ Len(src_pages) = 1
    /\ crop_box = Box(0, 0, 612, 792)
    /\ rotate = 0
    /\ temp_page_box = Box(0, 0, 1224, 1584)
    /\ scale_x = <<1, 2>>

\* the page in work has CropBox {0,0,792,612}, rotation 90 and the OCR page
\* box {0,0,1224,1584}, and its scale has been computed
LandscapeScaled ==
    /\ ScaleComputed
    /\ crop_box = Box(0, 0, 792, 612)
    /\ src_pages[i + 1].rotate = 90
    /\ temp_page_box = Box(0, 0, 1224, 1584)

\* C9 as claimed: the OCR width and height are swapped to (1584, 1224) and
\* scale_x is 792/1224.
LandscapeScaleAsClaimed ==
    LandscapeScaled =>
        /\ width_tmp = 1584 /\ height_tmp = 1224
        /\ scale_x = Frac(792, 1224)

\* C9 amended: the OCR width and height are swapped to (1584, 1224) and
\* scale_x is 792/1584 = 1/2 (scale_y is 612/1224 = 1/2).
LandscapeScaleSwapped ==
    LandscapeScaled =>
        /\ width_tmp = 1584 /\ height_tmp = 1224
        /\ scale_x = Frac(792, 1584)
        /\ scale_y = Frac(612, 1224)

\* C9 witness: the scale of such a page has been computed
LandscapeScaleReached == LandscapeScaled /\ pc = "matrix" /\ scale_x = <<1, 2>>

\* the page in work is rotated by 90 and its scale has been computed
RotatedScaled ==
    /\ ScaleComputed
    /\ src_pages[i + 1].rotate = 90
    /\ BoxWidth(temp_page_box) # 0 /\ BoxHeight(temp_page_box) # 0

\* scale_x and scale_y as computed for an unrotated page of width w and
\* height h and the OCR page box tbox
UnrotatedScale(w, h, tbox) ==
    <<ScaleX(w, EffWidthTmp(0, tbox)), ScaleY(h, EffHeightTmp(0, tbox))>>

\* C10 as claimed: the pair (scale_x, scale_y) of a page rotated by 90 whose
\* CropBox has width H and height W is the pair of the unrotated page of
\* width W and height H with the same OCR page box.
RotatedScaleSamePair ==
    RotatedScaled =>
        <<scale_x, scale_y>> = UnrotatedScale(height, width, temp_page_box)

\* C10 amended: it is that pair with its two components exchanged:
\* scale_x of the rotated page is scale_y of the unrotated one and scale_y
\* of the rotated page is scale_x of the unrotated one.
RotatedScaleExchangedPair ==
    RotatedScaled =>
        /\ scale_x = UnrotatedScale(height, width, temp_page_box)[2]
        /\ scale_y = UnrotatedScale(height, width, temp_page_box)[1]

\* C10 witness: a rotated page whose two scale factors differ
RotatedAnisotropic ==
    /\ RotatedScaled
    /\ crop_box = Box(1, 1, 3, 4)
    /\ temp_page_box = Box(0, 0, 4, 12)
    /\ scale_x = <<1, 6>>
    /\ scale_y = <<3, 4>>

\* C11 as claimed: the run goes on past the computation of the scale only
\* when both divisors are positive, a divisor that is zero or negative ends
\* the run with an error before a form is appended to the page, and a form
\* is appended only with scale_x and scale_y both positive.
PositiveScaleOrFatal ==
    /\ pc \in {"matrix", "add_form"} => width_tmp > 0 /\ height_tmp > 0
    /\ (<<"scale", i>> \in failed) => pc \in {"error", "exit"} /\ ~HasForm(i + 1)
    /\ (pc = "loop" /\ i >= 1 /\ HasForm(i)) => scale_x[1] > 0 /\ scale_y[1] > 0

\* C12 as claimed: when a page-scoped step of page p has failed, the error
\* that ends the run is that one failure and its message names p.
ErrorNamesFailedPage ==
    \A st \in PageSteps, p \in 0..MaxPages :
        (<<st, p>> \in failed) =>
            /\ failed = {<<st, p>>}
            /\ err # ""
            /\ PageNamedBy(err) = p

\* C16: doc.Save succeeds at most once, not before the loop is over and
\* every page holds its form, and a run that ends without an error has
\* saved exactly once.
SaveOnceAtEnd ==
    /\ saved <= 1
    /\ saved = 1 =>
            /\ pc \in {"done", "exit"}
            /\ i = Len(doc_content)
            /\ \A p \in 1..Len(doc_content) : HasForm(p)
    /\ (pc = "done" \/ (pc = "exit" /\ exit_code = 0)) => saved = 1
    /\ pc \notin {"done", "exit"} => saved = 0

\* C16 witness: ocr() has returned after two pages and one save
TwoPagesSavedOnce ==
    /\ pc = "done"
    /\ Len(src_pages) = 2
    /\ HasForm(1) /\ HasForm(2)
    /\ saved = 1

\* C17 as claimed: in a successful run every destination page that was
\* acquired has been composited and then released when the document is
\* saved.
AcquiredPagesReleased ==
    saved > 0 =>
        \A n \in 1..Len(acquired) :
            /\ HasForm(acquired[n] + 1)
            /\ acquired[n] \in ReleasedPages

\* C18 as claimed: a closed temporary document has its page released, the
\* page is never acquired while the document is not open, and when the run
\* has ended no temporary page is still acquired.
TempPageReleasedBeforeClose ==
    /\ temp_doc = "closed" => temp_page = "released"
    /\ temp_page = "acquired" => temp_doc = "open"
    /\ pc = "exit" => temp_page # "acquired"

\* C19: the OCR width and height are swapped exactly when the quadrant
\* q = (rotation / 90) mod 4 is 1 or 3, and the matrix is rotated by that q
\* and translated to the anchor of that q.
SwapAgreesWithQuadrant ==
    LET rot == src_pages[i + 1].rotate
        q == (rot \div 90) % 4
        swapped == /\ width_tmp = temp_page_box.top - temp_page_box.bottom
                   /\ height_tmp = temp_page_box.right - temp_page_box.left
        kept == /\ width_tmp = temp_page_box.right - temp_page_box.left
                /\ height_tmp = temp_page_box.top - temp_page_box.bottom
    IN  /\ ScaleComputed => IF q \in {1, 3} THEN swapped ELSE kept
        /\ pc = "add_form" =>
             /\ rotate = q
             /\ matrix.e = RInt(CASE q = 0 -> crop_box.left
                                  [] q = 1 -> crop_box.right
                                  [] q = 2 -> crop_box.right
                                  [] q = 3 -> crop_box.left)
             /\ matrix.f = RInt(CASE q = 0 -> crop_box.bottom
                                  [] q = 1 -> crop_box.bottom
                                  [] q = 2 -> crop_box.top
                                  [] q = 3 -> crop_box.top)

\* C19 witness: a page rotated by 270 whose OCR box 4 x 12 was swapped
SwappedAt270 ==
    /\ pc = "add_form"
    /\ src_pages[i + 1].rotate = 270
    /\ temp_page_box = Box(0, 0, 4, 12)
    /\ width_tmp = 12 /\ height_tmp = 4
    /\ rotate = 3

\* C20: the crop box, the content and the XObject of the temporary page are
\* read or written only in steps that leave the page acquired and its
\* document open; the temporary file is deleted only with the document
\* closed; and the geometry works on the crop box that was read then.
NoUseAfterRelease ==
    [][/\ (/\ pc # "loop"
           /\ \/ temp_page_box' # temp_page_box
              \/ objs' # objs
              \/ visited' # visited
              \/ xobj' # xobj)
          => (temp_page' = "acquired" /\ temp_doc' = "open"
              /\ i \in temp_files')
       /\ (temp_files' # temp_files /\ ~(temp_files \subseteq temp_files'))
          => (temp_doc = "closed" /\ temp_page = "released")
       /\ pc \in {"geometry", "matrix"}
          => (temp_page = "released" /\ temp_page_box = temp_pdf.box)]_vars

\* C20 witness: a temporary page with content was filtered, made an XObject
\* of, released, and its file deleted
TempPageUsedAndGone ==
    /\ pc = "geometry"
    /\ Len(temp_pdf.objs) = 2
    /\ Len(xobj) = 1
    /\ temp_page = "released"
    /\ temp_doc = "closed"
    /\ temp_files = {}

\* C14 as claimed: the exit code is 0 only after --help or a subcommand
\* that succeeded (ocr: the document was saved); a command line that names
\* ocr without both names, with a name that is not a PDF, or with an input
\* that is no file, and every failure of ocr(), end with another exit code.
ExitZeroOnlyOnSuccess ==
    pc = "exit" =>
        /\ exit_code = 0 =>
              \/ args.parse = "help"
              \/ args.parse = "ok" /\ args.subparser = "none"
              \/ args.parse = "ok" /\ args.subparser = "config" /\ err = ""
              \/ args.parse = "ok" /\ args.subparser = "ocr" /\ saved = 1
        /\ ( \/ args.parse = "error"
             \/ /\ args.parse = "ok"
                /\ args.subparser = "ocr"
                /\ \/ args.input = NoName
                   \/ args.output = NoName
                   \/ ~args.isfile
                   \/ args.input.ext \notin {".pdf", ".PDF"}
                   \/ args.output.ext \notin {".pdf", ".PDF"}
             \/ err # "" ) => exit_code # 0

\* C15: every call of the OCR engine is given --lang when that is not empty,
\* else the code the table has for the document's language, else "eng"; the
\* code is never empty and the same for every page.
OcrLangResolved ==
    \A n \in 1..Len(ocr_langs) :
        /\ ocr_langs[n] # ""
        /\ ocr_langs[n] = ocr_langs[1]
        /\ ocr_langs[n] = IF args.lang # "" THEN args.lang
                          ELSE IF doc_lang = "en-US" THEN "eng"
                          ELSE IF doc_lang = "de" THEN "deu"
                          ELSE "eng"

\* C15 witness: two pages of a document with an unknown language tag were
\* recognized with the default code
TwoPagesDefaultLang ==
    /\ args.lang = ""
    /\ doc_lang = "xx"
    /\ ocr_langs = <<"eng", "eng">>

\* the matrix every run gives the form of a page of RunPages
ExpectedMatrix(page) ==
    CASE page.rotate = 0 ->
           [a |-> <<1, 2>>, b |-> <<0, 1>>, c |-> <<0, 1>>, d |-> <<1, 2>>,
            e |-> <<0, 1>>, f |-> <<0, 1>>]
      [] page.rotate = 90 ->
           [a |-> <<0, 1>>, b |-> <<1, 2>>, c |-> <<-1, 2>>, d |-> <<0, 1>>,
            e |-> <<792, 1>>, f |-> <<0, 1>>]
      [] page.rotate = 180 ->
           [a |-> <<-1, 2>>, b |-> <<0, 1>>, c |-> <<0, 1>>, d |-> <<-1, 4>>,
            e |-> <<3, 1>>, f |-> <<4, 1>>]

\* C13: the object count and the matrix coefficients of every page are a
\* function of the input document alone: whatever names the temporary files
\* get, a page holds its own objects, and once composited one form more,
\* whose matrix is the one matrix of that input page.
OutputDeterminedByInput ==
    \A p \in 1..Len(src_pages) :
        LET n == Len(src_pages[p].content)
        IN  IF HasForm(p)
            THEN /\ Len(doc_content[p]) = n + 1
                 /\ doc_content[p][n + 1].matrix = ExpectedMatrix(src_pages[p])
                 /\ \A j \in 1..n : doc_content[p][j] = src_pages[p].content[j]
            ELSE doc_content[p] = src_pages[p].content

\* C13 witness: a document of the three pages was saved, the last of its
\* temporary files under the second name
SavedUnderBothNames ==
    /\ saved = 1
    /\ Len(src_pages) = 3
    /\ {src_pages[p].rotate : p \in 1..3} = {0, 90, 180}
    /\ temp_path = "b.pdf"
    /\ \A p \in 1..3 : HasForm(p)

====
